---- MODULE Spec2Model ----
(***************************************************************************)
(* Model of pysteps/verification/probscores.py: the CRPS function, the     *)
(* reliability diagram accumulator and the ROC curve accumulator.          *)
(*                                                                         *)
(* Numbers.  Forecast probabilities and bin edges are fixed-point integers *)
(* in units of 1e-7 (Scale = 1.0), so that the bin edges                   *)
(* linspace(-1e-6, 1+1e-6, n_bins+1) are exact for the n_bins used here.   *)
(* Sums are exact integers; quotients are kept as unreduced fractions      *)
(* [num, den], den = 0 standing for the NaN numpy yields for 0/0.          *)
(* Floating-point rounding is not modelled.                                *)
(***************************************************************************)
EXTENDS Integers, Sequences, FiniteSets

VARIABLES
    reldiag,    \* the reliability diagram object (dict of reldiag_init)
    ROC,        \* the ROC curve object (dict of ROC_curve_init)
    P_f,        \* forecast-probability array of the last accum call
    X_o,        \* observation array of the last accum call / of CRPS
    X_f,        \* ensemble array (n x m) given to CRPS
    op,         \* the operation that ran last
    outcome,    \* "ok" or "error" (an exception left the call)
    out,        \* value returned by the last call (None for init and accum)
    idx,        \* reldiag_accum's local idx (bin index of each filtered pair)
    hist        \* history of the calls (not program state), see HistInit

vars == <<reldiag, ROC, P_f, X_o, X_f, op, outcome, out, idx, hist>>

-----------------------------------------------------------------------------
(* Bounds and input sets *)

\* Largest number of array elements passed to accum calls over one run.
MaxTotal == 3

\* The same, in the specification that runs both accumulators side by side
\* and also passes arrays of different lengths.
MaxBoth == 2

\* 1.0 in fixed-point units, and the 1e-6 overshoot of the bin edges.
Scale == 10000000
Eps == 10

\* A non-finite array element (nan or +-inf): np.isfinite is false for it.
NaN == -888888888

\* Forecast probabilities offered to accum: non-finite, slightly negative
\* (inside the first bin), 0, 0.5 (a bin edge for n_bins = 2 and a
\* probability threshold for n_prob_thrs = 3) and 1.
ProbVals == {NaN, -5, 0, 5000000, Scale}

\* Observations offered to accum: non-finite, below X_min, equal to X_min.
ObsVals == {NaN, 0, 1}

\* Arguments offered to the constructors.
XMinVals == {1}
NBinsVals == {2}
MinCountVals == {1, 2}
NProbThrsVals == {3}

\* CRPS inputs: at most MaxCases forecast cases of 1..MaxMembers ensemble
\* members each, values from CRPSVals.
MaxCases == 2
MaxMembers == 3
CRPSVals == {NaN, 0, 1, 2}

\* Python's None (what a function without a return statement returns)
None == <<>>

SeqsUpTo(S, n) == UNION {[1..k -> S] : k \in 0..n}

Max(a, b) == IF a >= b THEN a ELSE b

\* Argument pairs <<P_f, X_o>> of an accum call using at most n elements:
\* arrays of any two lengths, and arrays of one common length.
AccumArgs(n) == SeqsUpTo(ProbVals, n) \X SeqsUpTo(ObsVals, n)
AccumArgsSameLen(n) == UNION {[1..k -> ProbVals] \X [1..k -> ObsVals] : k \in 0..n}

-----------------------------------------------------------------------------
(* numpy primitives used by the module *)

IsFinite(v) == v # NaN

RECURSIVE SumOver(_, _)
\* np.sum of f over the index set S
SumOver(f, S) ==
    IF S = {} THEN 0
    ELSE LET i == CHOOSE j \in S : TRUE
         IN  f[i] + SumOver(f, S \ {i})

\* np.zeros(n)
Zeros(n) == [k \in 1..n |-> 0]

\* np.logical_and(np.isfinite(P), np.isfinite(X)) with numpy broadcasting of
\* 1-d arrays: equal lengths combine elementwise, a length-1 array is
\* stretched to the other's length, anything else raises ValueError.
FiniteMask(P, X) ==
    IF Len(P) = Len(X)
    THEN [err |-> FALSE,
          mask |-> [i \in 1..Len(P) |-> IsFinite(P[i]) /\ IsFinite(X[i])]]
    ELSE IF Len(P) = 1
    THEN [err |-> FALSE,
          mask |-> [i \in 1..Len(X) |-> IsFinite(P[1]) /\ IsFinite(X[i])]]
    ELSE IF Len(X) = 1
    THEN [err |-> FALSE,
          mask |-> [i \in 1..Len(P) |-> IsFinite(P[i]) /\ IsFinite(X[1])]]
    ELSE [err |-> TRUE, mask |-> <<>>]

RECURSIVE Select(_, _, _)
\* elements of arr at the positions >= i where mask is true, in order
Select(arr, mask, i) ==
    IF i > Len(arr) THEN <<>>
    ELSE IF mask[i] THEN <<arr[i]>> \o Select(arr, mask, i + 1)
    ELSE Select(arr, mask, i + 1)

\* Boolean indexing that does not check the mask's length
BoolIndexUnchecked(arr, mask) ==
    [err |-> FALSE,
     val |-> Select(arr, [i \in 1..Len(arr) |-> i <= Len(mask) /\ mask[i]], 1)]

\* arr[mask]: boolean indexing; a mask whose length differs from the array's
\* raises IndexError.
BoolIndex(arr, mask) ==
    IF Len(mask) # Len(arr) THEN [err |-> TRUE, val |-> <<>>]
    ELSE [err |-> FALSE, val |-> Select(arr, mask, 1)]

\* The first three statements of both accum functions: mask, P_f[mask],
\* X_o[mask].  err is true when one of them raises.
Filtered(P, X) ==
    LET m == FiniteMask(P, X)
        p == BoolIndex(P, m.mask)
        x == BoolIndex(X, m.mask)
    IN  IF m.err \/ p.err \/ x.err
        THEN [err |-> TRUE, P |-> <<>>, X |-> <<>>]
        ELSE [err |-> FALSE, P |-> p.val, X |-> x.val]

\* np.linspace(lo, hi, n) in fixed point (n = 1 gives [lo])
Linspace(lo, hi, n) ==
    [k \in 1..n |-> IF n = 1 THEN lo ELSE lo + ((k - 1) * (hi - lo)) \div (n - 1)]

\* np.digitize(x, bins, right=False): i with bins[i-1] <= x < bins[i]
DigitizeLeft(x, bins) == Cardinality({j \in 1..Len(bins) : bins[j] <= x})

\* np.digitize(x, bins, right=True) for increasing bins:
\* the i with bins[i-1] < x <= bins[i] (0 below the first edge, len(bins)
\* above the last), i.e. the number of edges strictly below x.
Digitize(x, bins) == Cardinality({j \in 1..Len(bins) : bins[j] < x})

\* a quotient a / b as numpy computes it on 1.0*a and b: b = 0 is not an
\* error but yields nan (den = 0)
Frac(a, b) == [num |-> a, den |-> b]

-----------------------------------------------------------------------------
(* CRPS *)

RECURSIVE InsertSorted(_, _)
InsertSorted(v, s) ==
    IF s = <<>> THEN <<v>>
    ELSE IF v <= Head(s) THEN <<v>> \o s
    ELSE <<Head(s)>> \o InsertSorted(v, Tail(s))

RECURSIVE SortRow(_)
\* X_f.sort(axis=1), one row
SortRow(row) ==
    IF row = <<>> THEN <<>> ELSE InsertSorted(Head(row), SortRow(Tail(row)))

\* mask = np.logical_and(np.all(np.isfinite(X_f), axis=1), np.isfinite(X_o))
CRPS_mask(Xf, Xo) ==
    [c \in 1..Len(Xo) |-> (\A j \in 1..Len(Xf[c]) : IsFinite(Xf[c][j])) /\ IsFinite(Xo[c])]

\* alpha[c, i] for one retained case: x its sorted members (x[j+1] is the
\* code's X_f[c, j]), o its observation, i in 0..m.  The masked assignments
\* are applied in the code's order to an array that starts at zero.
CRPS_alpha(x, o, i) ==
    LET m == Len(x)
    IN  IF i = 0 THEN 0
        ELSE IF i = m THEN (IF x[m] < o THEN o - x[m] ELSE 0)
        ELSE LET a1 == IF o > x[i + 1] THEN x[i + 1] - x[i] ELSE 0
                 a2 == IF x[i + 1] > o /\ o > x[i] THEN o - x[i] ELSE a1
                 a3 == IF o < x[i] THEN 0 ELSE a2
             IN  a3

\* beta[c, i] for one retained case
CRPS_beta(x, o, i) ==
    LET m == Len(x)
    IN  IF i = 0 THEN (IF o < x[1] THEN x[1] - o ELSE 0)
        ELSE IF i = m THEN 0
        ELSE LET b1 == IF o > x[i + 1] THEN 0 ELSE 0
                 b2 == IF x[i + 1] > o /\ o > x[i] THEN x[i + 1] - o ELSE b1
                 b3 == IF o < x[i] THEN x[i + 1] - x[i] ELSE b2
             IN  b3

\* res[c] * m^2 = sum_i alpha_i * i^2 + beta_i * (m - i)^2   (p_i = i / m)
CRPS_res(x, o) ==
    LET m == Len(x)
        term == [i \in 0..m |-> CRPS_alpha(x, o, i) * i * i
                                + CRPS_beta(x, o, i) * (m - i) * (m - i)]
    IN  SumOver(term, 0..m)

\* CRPS(X_f, X_o) for X_f of shape (n, m), m >= 1: np.mean(res) as the
\* quotient sum(res * m^2) / (n_retained * m^2); no retained case gives nan.
CRPS(Xf, Xo) ==
    LET m    == IF Xf = <<>> THEN 1 ELSE Len(Xf[1])   \* X_f.shape[1]
        mask == CRPS_mask(Xf, Xo)
        kept == {c \in 1..Len(Xo) : mask[c]}
        res  == [c \in kept |-> CRPS_res(SortRow(Xf[c]), Xo[c])]
    IN  Frac(SumOver(res, kept), Cardinality(kept) * m * m)

-----------------------------------------------------------------------------
(* Reliability diagram *)

reldiag_init(X_min, n_bins, min_count) ==
    [X_min       |-> X_min,
     bin_edges   |-> Linspace(-Eps, Scale + Eps, n_bins + 1),
     n_bins      |-> n_bins,
     X_sum       |-> Zeros(n_bins),
     Y_sum       |-> Zeros(n_bins),
     num_idx     |-> Zeros(n_bins),
     sample_size |-> Zeros(n_bins),
     min_count   |-> min_count]

\* I_k = np.where(idx == k)[0]
I_k(ix, k) == {i \in 1..Len(ix) : ix[i] = k}

\* The test of line 134 made against the bin's cumulative count
BinQualifiesCumulative(rd, k, n) == n + rd.sample_size[k] >= rd.min_count

\* len(I_k) >= reldiag["min_count"], for bin k holding n pairs of this call
BinQualifies(rd, k, n) == n >= rd.min_count

\* reldiag_accum assigning the call's sums instead of adding them
reldiag_add_assign(rd, P, X, ix) ==
    LET nb   == Len(rd.bin_edges) - 1
        ok(k) == BinQualifies(rd, k, Cardinality(I_k(ix, k)))
        above == [i \in 1..Len(X) |-> IF X[i] >= rd.X_min THEN 1 ELSE 0]
    IN  [rd EXCEPT
            !.X_sum       = [k \in 1..nb |-> IF ok(k) THEN SumOver(P, I_k(ix, k)) ELSE 0],
            !.Y_sum       = [k \in 1..nb |-> IF ok(k) THEN SumOver(above, I_k(ix, k)) ELSE 0],
            !.num_idx     = [k \in 1..nb |-> IF ok(k) THEN Cardinality(I_k(ix, k)) ELSE 0],
            !.sample_size = [k \in 1..nb |-> IF ok(k) THEN Cardinality(I_k(ix, k)) ELSE 0]]

\* reldiag_accum summing X_o - X_min instead of the indicator X_o >= X_min
reldiag_add_unthresholded(rd, P, X, ix) ==
    LET nb   == Len(rd.bin_edges) - 1
        ok(k) == BinQualifies(rd, k, Cardinality(I_k(ix, k)))
        above == [i \in 1..Len(X) |-> X[i] - rd.X_min]
    IN  [rd EXCEPT
            !.X_sum       = [k \in 1..nb |-> rd.X_sum[k] + IF ok(k) THEN SumOver(P, I_k(ix, k)) ELSE 0],
            !.Y_sum       = [k \in 1..nb |-> rd.Y_sum[k] + IF ok(k) THEN SumOver(above, I_k(ix, k)) ELSE 0],
            !.num_idx     = [k \in 1..nb |-> rd.num_idx[k] + IF ok(k) THEN Cardinality(I_k(ix, k)) ELSE 0],
            !.sample_size = [k \in 1..nb |-> rd.sample_size[k] + IF ok(k) THEN Cardinality(I_k(ix, k)) ELSE 0]]

\* The loop of reldiag_accum over the bins and the four += statements, given
\* the filtered arrays P, X and their bin indices ix.
reldiag_add(rd, P, X, ix) ==
    LET nb   == Len(rd.bin_edges) - 1
        ok(k) == BinQualifies(rd, k, Cardinality(I_k(ix, k)))
        above == [i \in 1..Len(X) |-> IF X[i] >= rd.X_min THEN 1 ELSE 0]
        y    == [k \in 1..nb |-> IF ok(k) THEN SumOver(above, I_k(ix, k)) ELSE 0]
        x    == [k \in 1..nb |-> IF ok(k) THEN SumOver(P, I_k(ix, k)) ELSE 0]
        n    == [k \in 1..nb |-> IF ok(k) THEN Cardinality(I_k(ix, k)) ELSE 0]
        ss   == [k \in 1..nb |-> IF ok(k) THEN Cardinality(I_k(ix, k)) ELSE 0]
    IN  [rd EXCEPT
            !.X_sum       = [k \in 1..nb |-> rd.X_sum[k] + x[k]],
            !.Y_sum       = [k \in 1..nb |-> rd.Y_sum[k] + y[k]],
            !.num_idx     = [k \in 1..nb |-> rd.num_idx[k] + n[k]],
            !.sample_size = [k \in 1..nb |-> rd.sample_size[k] + ss[k]]]

\* idx = np.digitize(P_f, reldiag["bin_edges"], right=True)
reldiag_idx(rd, P) == [i \in 1..Len(P) |-> Digitize(P[i], rd.bin_edges)]

\* f and r of reldiag_compute
reldiag_result(rd) ==
    [r |-> [k \in 1..Len(rd.num_idx) |-> Frac(rd.X_sum[k], rd.num_idx[k])],
     f |-> [k \in 1..Len(rd.num_idx) |-> Frac(rd.Y_sum[k], rd.num_idx[k])]]

\* A reldiag_compute that divides the sums in place
reldiag_compute_inplace(rd) ==
    [ret |-> reldiag_result(rd),
     rd  |-> [rd EXCEPT !.num_idx = [k \in 1..Len(rd.num_idx) |->
                                       IF rd.num_idx[k] > 0 THEN 1 ELSE 0]]]

\* reldiag_compute: the value returned and the object as the call leaves it
reldiag_compute(rd) == [ret |-> reldiag_result(rd), rd |-> rd]

-----------------------------------------------------------------------------
(* ROC curve *)

\* ROC_curve_init with the thresholds running from 1 down to 0
ROC_curve_init_descending(X_min, n_prob_thrs) ==
    [X_min        |-> X_min,
     hits         |-> Zeros(n_prob_thrs),
     misses       |-> Zeros(n_prob_thrs),
     false_alarms |-> Zeros(n_prob_thrs),
     corr_neg     |-> Zeros(n_prob_thrs),
     prob_thrs    |-> Linspace(Scale, 0, n_prob_thrs)]

ROC_curve_init(X_min, n_prob_thrs) ==
    [X_min        |-> X_min,
     hits         |-> Zeros(n_prob_thrs),
     misses       |-> Zeros(n_prob_thrs),
     false_alarms |-> Zeros(n_prob_thrs),
     corr_neg     |-> Zeros(n_prob_thrs),
     prob_thrs    |-> Linspace(0, Scale, n_prob_thrs)]

\* P_f > p
ForecastYesStrict(pf, p) == pf > p

\* P_f >= p
ForecastYes(pf, p) == pf >= p

\* P_f <= p
ForecastNoInclusive(pf, p) == pf <= p

\* P_f < p
ForecastNo(pf, p) == pf < p

\* The loop of ROC_curve_accum over the probability thresholds, given the
\* filtered arrays P, X.  Each count is np.sum(mask.astype(int)).
ROC_add(roc, P, X) ==
    LET n == Len(roc.prob_thrs)
        p(i) == roc.prob_thrs[i]
        J == 1..Len(P)
        hit(i) == Cardinality({j \in J : ForecastYes(P[j], p(i)) /\ X[j] >= roc.X_min})
        mis(i) == Cardinality({j \in J : ForecastNo(P[j], p(i)) /\ X[j] >= roc.X_min})
        fal(i) == Cardinality({j \in J : ForecastYes(P[j], p(i)) /\ X[j] < roc.X_min})
        cor(i) == Cardinality({j \in J : ForecastNo(P[j], p(i)) /\ X[j] < roc.X_min})
    IN  [roc EXCEPT
            !.hits         = [i \in 1..n |-> roc.hits[i] + hit(i)],
            !.misses       = [i \in 1..n |-> roc.misses[i] + mis(i)],
            !.false_alarms = [i \in 1..n |-> roc.false_alarms[i] + fal(i)],
            !.corr_neg     = [i \in 1..n |-> roc.corr_neg[i] + cor(i)]]

\* float arithmetic on quotients; a nan operand (den = 0) gives nan
FMul(a, b) == Frac(a.num * b.num, a.den * b.den)
FAdd(a, b) == Frac(a.num * b.den + b.num * a.den, a.den * b.den)
FSub(a, b) == Frac(a.num * b.den - b.num * a.den, a.den * b.den)
One == Frac(1, 1)
Half == Frac(1, 2)

POD_vals(roc) ==
    [i \in 1..Len(roc.prob_thrs) |-> Frac(roc.hits[i], roc.hits[i] + roc.misses[i])]

POFD_vals(roc) ==
    [i \in 1..Len(roc.prob_thrs) |->
        Frac(roc.false_alarms[i], roc.corr_neg[i] + roc.false_alarms[i])]

RECURSIVE AreaLoop(_, _, _, _)
\* the loop of lines 255-256, from index i on
AreaLoop(area, POFD, POD, i) ==
    IF i > Len(POFD) - 1 THEN area
    ELSE AreaLoop(FAdd(area, FMul(FMul(FSub(POFD[i], POFD[i + 1]),
                                       FAdd(POD[i + 1], POD[i])), Half)),
                  POFD, POD, i + 1)

\* the area under the ROC curve, lines 254-257
ROC_area(POFD, POD) ==
    LET n  == Len(POFD)
        a0 == FMul(FMul(FSub(One, POFD[1]), FAdd(One, POD[1])), Half)
        a1 == AreaLoop(a0, POFD, POD, 1)
    IN  FAdd(a1, FMul(FMul(POFD[n], POD[n]), Half))

\* what ROC_curve_compute returns
ROC_result(roc, compute_area) ==
    [POFD |-> POFD_vals(roc),
     POD  |-> POD_vals(roc),
     area |-> IF compute_area THEN ROC_area(POFD_vals(roc), POD_vals(roc)) ELSE None]

\* A ROC_curve_compute that clears the counts once they are read
ROC_curve_compute_reset(roc, compute_area) ==
    [ret |-> ROC_result(roc, compute_area),
     roc |-> [roc EXCEPT !.hits = Zeros(Len(roc.prob_thrs))]]

\* ROC_curve_compute: the value returned and the object as the call leaves it
ROC_curve_compute(roc, compute_area) ==
    [ret |-> ROC_result(roc, compute_area), roc |-> roc]

-----------------------------------------------------------------------------
(* History of the calls: what was passed so far.  Not program state. *)

\* the positions of P (filtered) whose probability lies in [0, 1]
InUnit(p) == 0 <= p /\ p <= Scale

HistInit ==
    [used     |-> 0,       \* array elements passed to accum calls
     calls    |-> 0,       \* accum calls that passed at least one finite pair
     nFinite  |-> 0,       \* finite pairs passed
     nPos     |-> 0,       \* finite pairs with observation >= X_min
     nNeg     |-> 0,       \* finite pairs with observation < X_min
     inUnit   |-> TRUE,    \* every finite pair had probability in [0, 1]
     nonNeg   |-> TRUE,    \* every finite pair had probability >= 0
     allMet   |-> TRUE,    \* in every call each non-empty bin had >= min_count pairs
     dataP    |-> <<>>,    \* the finite pairs passed, concatenated
     dataX    |-> <<>>,
     binned   |-> 0,       \* finite pairs that the binning step put in a bin 1..n_bins
     rawCount |-> <<>>,    \* per bin, finite pairs binned there over all calls
     replayRD  |-> <<>>,   \* the objects as the accum calls alone, without
     replayROC |-> <<>>]   \* the compute calls in between, leave them (the
                           \* same accum applied to the replayed object)

\* the history after an accum call that was given the arrays rawP, rawX and
\* kept the filtered arrays P, X; ix are the reliability diagram's bin
\* indices of P (<<>> for a ROC call); keep says whether the pairs are
\* appended to dataP, dataX (reliability diagram only).  The pairs are
\* counted on the arrays as given, position by position.
HistAfter(h, rawP, rawX, X_min, P, X, nb, minc, ix, keep) ==
    LET cnt(k) == Cardinality(I_k(ix, k))
        fin == {i \in (DOMAIN rawP) \cap (DOMAIN rawX) :
                    IsFinite(rawP[i]) /\ IsFinite(rawX[i])}
    IN  [used     |-> h.used + Max(Len(rawP), Len(rawX)),
         calls    |-> IF fin # {} THEN h.calls + 1 ELSE h.calls,
         nFinite  |-> h.nFinite + Cardinality(fin),
         nPos     |-> h.nPos + Cardinality({i \in fin : rawX[i] >= X_min}),
         nNeg     |-> h.nNeg + Cardinality({i \in fin : rawX[i] < X_min}),
         inUnit   |-> h.inUnit /\ \A i \in 1..Len(P) : InUnit(P[i]),
         nonNeg   |-> h.nonNeg /\ \A i \in 1..Len(P) : P[i] >= 0,
         allMet   |-> h.allMet /\ \A k \in 1..nb : cnt(k) = 0 \/ cnt(k) >= minc,
         dataP    |-> IF keep THEN h.dataP \o P ELSE h.dataP,
         dataX    |-> IF keep THEN h.dataX \o X ELSE h.dataX,
         binned   |-> h.binned + Cardinality({i \in 1..Len(ix) : ix[i] \in 1..nb}),
         rawCount |-> [k \in 1..nb |-> h.rawCount[k] + cnt(k)],
         replayRD  |-> h.replayRD,
         replayROC |-> h.replayROC]

-----------------------------------------------------------------------------
(* Operations on the reliability diagram *)

InitRD ==
    /\ \E xm \in XMinVals, nb \in NBinsVals, mc \in MinCountVals :
           reldiag = reldiag_init(xm, nb, mc)
    /\ ROC = <<>>
    /\ P_f = <<>> /\ X_o = <<>> /\ X_f = <<>>
    /\ op = "init" /\ outcome = "ok" /\ out = None /\ idx = <<>>
    /\ hist = [HistInit EXCEPT !.rawCount = Zeros(reldiag.n_bins),
                               !.replayRD = reldiag, !.replayROC = ROC]

\* reldiag_accum(reldiag, P, X)
reldiag_accum(P, X) ==
    LET F == Filtered(P, X)
        ix == reldiag_idx(reldiag, F.P)
    IN  /\ op' = "reldiag_accum"
        /\ P_f' = P /\ X_o' = X
        /\ out' = None
        /\ IF F.err
           THEN /\ outcome' = "error"
                /\ hist' = [hist EXCEPT !.used = @ + Max(Len(P), Len(X))]
                /\ UNCHANGED <<reldiag, idx>>
           ELSE /\ outcome' = "ok"
                /\ idx' = ix
                /\ reldiag' = reldiag_add(reldiag, F.P, F.X, ix)
                /\ hist' = [HistAfter(hist, P, X, reldiag.X_min, F.P, F.X,
                                      reldiag.n_bins, reldiag.min_count, ix, TRUE)
                               EXCEPT !.replayRD = IF @ = reldiag THEN reldiag'
                                                  ELSE reldiag_add(@, F.P, F.X, reldiag_idx(@, F.P))]
        /\ UNCHANGED <<ROC, X_f>>

\* reldiag_accum with arrays of one length
reldiag_accum_call ==
    \E a \in AccumArgsSameLen(MaxTotal - hist.used) : reldiag_accum(a[1], a[2])

\* reldiag_accum with arrays of any lengths
reldiag_accum_any ==
    \E a \in AccumArgs(MaxBoth - hist.used) : reldiag_accum(a[1], a[2])

reldiag_compute_call ==
    /\ op' = "reldiag_compute"
    /\ outcome' = "ok"
    /\ out' = reldiag_compute(reldiag).ret
    /\ reldiag' = reldiag_compute(reldiag).rd
    /\ UNCHANGED <<ROC, P_f, X_o, X_f, idx, hist>>

NextRD == reldiag_accum_call \/ reldiag_compute_call

SpecRD == InitRD /\ [][NextRD]_vars

-----------------------------------------------------------------------------
(* Operations on the ROC curve *)

InitROC ==
    /\ \E xm \in XMinVals, n \in NProbThrsVals : ROC = ROC_curve_init(xm, n)
    /\ reldiag = <<>>
    /\ P_f = <<>> /\ X_o = <<>> /\ X_f = <<>>
    /\ op = "init" /\ outcome = "ok" /\ out = None /\ idx = <<>>
    /\ hist = [HistInit EXCEPT !.replayROC = ROC]

\* ROC_curve_accum(ROC, P, X)
ROC_curve_accum(P, X) ==
    LET F == Filtered(P, X)
    IN  /\ op' = "ROC_curve_accum"
        /\ P_f' = P /\ X_o' = X
        /\ out' = None
        /\ IF F.err
           THEN /\ outcome' = "error"
                /\ hist' = [hist EXCEPT !.used = @ + Max(Len(P), Len(X))]
                /\ UNCHANGED ROC
           ELSE /\ outcome' = "ok"
                /\ ROC' = ROC_add(ROC, F.P, F.X)
                /\ hist' = [HistAfter(hist, P, X, ROC.X_min, F.P, F.X,
                                      Len(hist.rawCount), 0, <<>>, FALSE)
                               EXCEPT !.replayROC = IF @ = ROC THEN ROC'
                                                   ELSE ROC_add(@, F.P, F.X)]
        /\ UNCHANGED <<reldiag, X_f, idx>>

\* ROC_curve_accum with arrays of one length
ROC_curve_accum_call ==
    \E a \in AccumArgsSameLen(MaxTotal - hist.used) : ROC_curve_accum(a[1], a[2])

\* ROC_curve_accum with arrays of any lengths
ROC_curve_accum_any ==
    \E a \in AccumArgs(MaxBoth - hist.used) : ROC_curve_accum(a[1], a[2])

ROC_curve_compute_call ==
    \E compute_area \in BOOLEAN :
        /\ op' = "ROC_curve_compute"
        /\ outcome' = "ok"
        /\ out' = ROC_curve_compute(ROC, compute_area).ret
        /\ ROC' = ROC_curve_compute(ROC, compute_area).roc
        /\ UNCHANGED <<reldiag, P_f, X_o, X_f, idx, hist>>

NextROC == ROC_curve_accum_call \/ ROC_curve_compute_call

SpecROC == InitROC /\ [][NextROC]_vars

-----------------------------------------------------------------------------
(* CRPS, a function of its arguments *)

InitCRPS ==
    /\ \E n \in 0..MaxCases, m \in 1..MaxMembers :
           /\ X_f \in [1..n -> [1..m -> CRPSVals]]
           /\ X_o \in [1..n -> CRPSVals]
    /\ hist = HistInit
    /\ reldiag = <<>> /\ ROC = <<>>
    /\ P_f = <<>>
    /\ op = "init" /\ outcome = "ok" /\ out = None /\ idx = <<>>

\* out = CRPS(X_f, X_o)
CRPS_call ==
    /\ op = "init"
    /\ op' = "CRPS"
    /\ outcome' = "ok"
    /\ out' = CRPS(X_f, X_o)
    /\ UNCHANGED <<reldiag, ROC, P_f, X_o, X_f, idx, hist>>

NextCRPS == CRPS_call

SpecCRPS == InitCRPS /\ [][NextCRPS]_vars

-----------------------------------------------------------------------------
(* Both accumulators side by side, the caller interleaving the calls *)

Init ==
    /\ \E xm \in XMinVals, nb \in NBinsVals, mc \in MinCountVals :
           reldiag = reldiag_init(xm, nb, mc)
    /\ \E xm \in XMinVals, n \in NProbThrsVals : ROC = ROC_curve_init(xm, n)
    /\ P_f = <<>> /\ X_o = <<>> /\ X_f = <<>>
    /\ op = "init" /\ outcome = "ok" /\ out = None /\ idx = <<>>
    /\ hist = [HistInit EXCEPT !.rawCount = Zeros(reldiag.n_bins),
                               !.replayRD = reldiag, !.replayROC = ROC]

Next ==
    \/ reldiag_accum_any
    \/ reldiag_compute_call
    \/ ROC_curve_accum_any
    \/ ROC_curve_compute_call

Spec == Init /\ [][Next]_vars

-----------------------------------------------------------------------------
(* Properties of the ROC curve accumulator (SpecROC) *)

NThr == Len(ROC.prob_thrs)

\* C1: after ROC_curve_init and any accum calls, at every threshold index
\* the four counts add up to the number of finite pairs passed so far, so
\* every finite pair is in exactly one category at each threshold.
C1_CountsPartitionFinitePairs ==
    \A i \in 1..NThr :
        /\ ROC.hits[i] + ROC.misses[i] + ROC.false_alarms[i] + ROC.corr_neg[i]
               = hist.nFinite
        /\ ROC.hits[i] + ROC.misses[i] = hist.nPos
        /\ ROC.false_alarms[i] + ROC.corr_neg[i] = hist.nNeg

\* two calls were accumulated, finite pairs were counted and a non-finite
\* pair was left out
C1_Witness ==
    /\ op = "ROC_curve_accum"
    /\ hist.calls >= 2
    /\ hist.nFinite >= 2
    /\ hist.used > hist.nFinite

IsOne(q) == q.den > 0 /\ q.num = q.den

\* C6: while every accumulated probability is >= 0, threshold 0 has no
\* misses and no correct negatives, and once an event and a non-event were
\* accumulated ROC_curve_compute returns POD[0] = 1 and POFD[0] = 1.
C6_ThresholdZeroDetectsAll ==
    hist.nonNeg =>
        /\ ROC.misses[1] = 0
        /\ ROC.corr_neg[1] = 0
        /\ (op = "ROC_curve_compute" /\ hist.nPos >= 1 /\ hist.nNeg >= 1)
               => IsOne(out.POD[1]) /\ IsOne(out.POFD[1])

\* a compute after events and non-events, one of them forecast with
\* probability exactly 0
C6_Witness ==
    /\ op = "ROC_curve_compute"
    /\ hist.nonNeg
    /\ hist.nPos >= 1 /\ hist.nNeg >= 1
    /\ \E i \in 1..Len(P_f) : P_f[i] = 0 /\ IsFinite(X_o[i])

\* C10: hits and false alarms never increase with the threshold index, the
\* numbers of events and of non-events are the same at every threshold, and
\* so the POD and POFD sequences returned are non-increasing (equal
\* denominators, non-increasing numerators) whatever was accumulated.
C10_MonotoneInThreshold ==
    \A i \in 1..(NThr - 1) :
        /\ ROC.hits[i] >= ROC.hits[i + 1]
        /\ ROC.false_alarms[i] >= ROC.false_alarms[i + 1]
        /\ ROC.hits[i] + ROC.misses[i] = ROC.hits[i + 1] + ROC.misses[i + 1]
        /\ ROC.false_alarms[i] + ROC.corr_neg[i]
               = ROC.false_alarms[i + 1] + ROC.corr_neg[i + 1]
        /\ op = "ROC_curve_compute" =>
               /\ out.POD[i].den = out.POD[i + 1].den
               /\ out.POD[i].num >= out.POD[i + 1].num
               /\ out.POFD[i].den = out.POFD[i + 1].den
               /\ out.POFD[i].num >= out.POFD[i + 1].num

\* a compute on badly behaved data: a non-event forecast with probability 1
\* and an event forecast with probability 0, the curve dropping in between
C10_Witness ==
    /\ op = "ROC_curve_compute"
    /\ ROC.false_alarms[NThr] >= 1
    /\ ROC.misses[2] >= 1
    /\ \E i \in 1..(NThr - 1) : out.POD[i].num > out.POD[i + 1].num

-----------------------------------------------------------------------------
(* Properties of the reliability diagram accumulator (SpecRD) *)

\* the finite pairs of the last accum call
LastP == Filtered(P_f, X_o).P

\* the reliability diagram that one reldiag_accum call with all the data
\* passed so far gives
Whole ==
    reldiag_add(reldiag_init(reldiag.X_min, reldiag.n_bins, reldiag.min_count),
                hist.dataP, hist.dataX,
                reldiag_idx(reldiag, hist.dataP))

C4_ArraysNonDecreasing ==
    /\ [](/\ Len(reldiag.X_sum) = reldiag.n_bins
          /\ Len(reldiag.Y_sum) = reldiag.n_bins
          /\ Len(reldiag.num_idx) = reldiag.n_bins
          /\ Len(reldiag.sample_size) = reldiag.n_bins
          /\ hist.inUnit => \A k \in 1..reldiag.n_bins :
                 /\ reldiag.X_sum[k] >= 0
                 /\ reldiag.Y_sum[k] >= 0
                 /\ reldiag.num_idx[k] >= 0
                 /\ reldiag.sample_size[k] >= 0)
    /\ [][hist.inUnit' => \A k \in 1..reldiag.n_bins :
                 /\ reldiag.X_sum'[k] >= reldiag.X_sum[k]
                 /\ reldiag.Y_sum'[k] >= reldiag.Y_sum[k]
                 /\ reldiag.num_idx'[k] >= reldiag.num_idx[k]
                 /\ reldiag.sample_size'[k] >= reldiag.sample_size[k]]_vars

\* a second accum call grew a bin that an earlier call had filled, all
\* probabilities in [0, 1]
C4_Witness ==
    /\ op = "reldiag_accum"
    /\ hist.inUnit
    /\ hist.calls >= 2
    /\ \E k \in 1..reldiag.n_bins :
           /\ reldiag.X_sum[k] > 0
           /\ reldiag.Y_sum[k] > 0
           /\ reldiag.num_idx[k] > Len(idx)

\* C5: a bin that receives fewer than min_count finite pairs in a call gets
\* nothing added in that call, whatever it received before; and
\* sample_size equals num_idx in every state.
C5_MinCountPerCall ==
    /\ [](\A k \in 1..reldiag.n_bins : reldiag.sample_size[k] = reldiag.num_idx[k])
    /\ [][(op' = "reldiag_accum" /\ outcome' = "ok") =>
            \A k \in 1..reldiag.n_bins :
                Cardinality(I_k(idx', k)) < reldiag.min_count =>
                    /\ reldiag.X_sum'[k] = reldiag.X_sum[k]
                    /\ reldiag.Y_sum'[k] = reldiag.Y_sum[k]
                    /\ reldiag.num_idx'[k] = reldiag.num_idx[k]
                    /\ reldiag.sample_size'[k] = reldiag.sample_size[k]]_vars

\* a bin that counted an earlier call's pairs received, in the last call,
\* too few pairs to count: its cumulative number of pairs is above
\* min_count and above what the accumulator holds
C5_Witness ==
    /\ op = "reldiag_accum" /\ outcome = "ok"
    /\ \E k \in 1..reldiag.n_bins :
           /\ Cardinality(I_k(idx, k)) >= 1
           /\ Cardinality(I_k(idx, k)) < reldiag.min_count
           /\ reldiag.num_idx[k] >= reldiag.min_count
           /\ hist.rawCount[k] > reldiag.num_idx[k]

\* C7: every finite pair with probability in [0, 1] gets the one bin
\* 1..n_bins whose edges satisfy lower < p <= upper: 0 the first bin, 1 the
\* last, an interior edge the bin below it; and the binning step drops no
\* such pair.
C7_RightInclusiveBinning ==
    /\ (op = "reldiag_accum" /\ outcome = "ok") =>
           LET P == LastP
           IN  /\ Len(idx) = Len(P)
               /\ \A i \in 1..Len(P) : InUnit(P[i]) =>
                      /\ idx[i] \in 1..reldiag.n_bins
                      /\ reldiag.bin_edges[idx[i]] < P[i]
                      /\ P[i] <= reldiag.bin_edges[idx[i] + 1]
                      /\ P[i] = 0 => idx[i] = 1
                      /\ P[i] = Scale => idx[i] = reldiag.n_bins
                      /\ \A j \in 2..reldiag.n_bins :
                             P[i] = reldiag.bin_edges[j] => idx[i] = j - 1
    /\ hist.inUnit =>
           /\ hist.binned = hist.nFinite
           /\ SumOver(hist.rawCount, 1..reldiag.n_bins) = hist.nFinite

\* one call binned probability 0, an interior bin edge and 1
C7_Witness ==
    /\ op = "reldiag_accum" /\ outcome = "ok"
    /\ \E i, j, l \in 1..Len(LastP) :
           /\ LastP[i] = 0 /\ idx[i] = 1
           /\ LastP[j] = reldiag.bin_edges[2] /\ idx[j] = 1
           /\ LastP[l] = Scale /\ idx[l] = reldiag.n_bins

-----------------------------------------------------------------------------
(* Properties of both accumulators (Spec) *)

ComputeOps == {"reldiag_compute", "ROC_curve_compute"}
AccumOps == {"reldiag_accum", "ROC_curve_accum"}

\* C8: the compute calls change no field of either object, the accum calls
\* change only the running sums of their own object, and so the objects and
\* every compute result are what the accum calls alone determine.
C8_ComputeIsReadOnly ==
    /\ [][/\ op' \in ComputeOps => reldiag' = reldiag /\ ROC' = ROC
          /\ op' = "reldiag_accum" => ROC' = ROC
          /\ op' = "ROC_curve_accum" => reldiag' = reldiag
          /\ reldiag'.X_min = reldiag.X_min
          /\ reldiag'.bin_edges = reldiag.bin_edges
          /\ reldiag'.n_bins = reldiag.n_bins
          /\ reldiag'.min_count = reldiag.min_count
          /\ ROC'.X_min = ROC.X_min
          /\ ROC'.prob_thrs = ROC.prob_thrs]_vars
    /\ [](/\ reldiag = hist.replayRD
          /\ ROC = hist.replayROC
          /\ op = "reldiag_compute" => out = reldiag_result(hist.replayRD)
          /\ op = "ROC_curve_compute" =>
                 /\ out.POD = POD_vals(hist.replayROC)
                 /\ out.POFD = POFD_vals(hist.replayROC))

\* a compute on a reliability diagram that holds data, next to a ROC object
\* that holds data
C8_Witness ==
    /\ op = "reldiag_compute"
    /\ \E k \in 1..reldiag.n_bins : out.r[k].den > 0
    /\ ROC.hits[1] > 0

-----------------------------------------------------------------------------
(* Properties of CRPS (SpecCRPS) *)

\* alpha_i and beta_i of Hersbach's decomposition for sorted members x and
\* observation o, with closed comparisons on the interior intervals
Hersbach_alpha(x, o, i) ==
    LET m == Len(x)
    IN  IF i = 0 THEN 0
        ELSE IF i = m THEN (IF o > x[m] THEN o - x[m] ELSE 0)
        ELSE IF o <= x[i] THEN 0
        ELSE IF o >= x[i + 1] THEN x[i + 1] - x[i]
        ELSE o - x[i]

Hersbach_beta(x, o, i) ==
    LET m == Len(x)
    IN  IF i = 0 THEN (IF o < x[1] THEN x[1] - o ELSE 0)
        ELSE IF i = m THEN 0
        ELSE IF o <= x[i] THEN x[i + 1] - x[i]
        ELSE IF o >= x[i + 1] THEN 0
        ELSE x[i + 1] - o

Hersbach_res(x, o) ==
    LET m == Len(x)
        term == [i \in 0..m |-> Hersbach_alpha(x, o, i) * i * i
                                + Hersbach_beta(x, o, i) * (m - i) * (m - i)]
    IN  SumOver(term, 0..m)

\* C2: CRPS returns the mean over the retained cases of the per-case score
\* sum_i alpha_i (i/m)^2 + beta_i (1 - i/m)^2 with Hersbach's alpha and
\* beta, also when the observation equals an ensemble member.
C2_HersbachScore ==
    op = "CRPS" =>
        LET m    == IF X_f = <<>> THEN 1 ELSE Len(X_f[1])
            kept == {c \in 1..Len(X_o) : CRPS_mask(X_f, X_o)[c]}
            res  == [c \in kept |-> Hersbach_res(SortRow(X_f[c]), X_o[c])]
        IN  out = Frac(SumOver(res, kept), Cardinality(kept) * m * m)

====
